---- MODULE Spec2Model ----
(***************************************************************************)
(* Model of the CLR profiler callbacks of cor_profiler.cpp:                *)
(*   CorProfiler::ModuleLoadFinished, ModuleUnloadFinished and             *)
(*   JITCompilationStarted, run concurrently by host threads over the      *)
(*   shared module_id_to_info_map_ and the heap of ModuleMetadata records. *)
(***************************************************************************)
EXTENDS Integers, Sequences, FiniteSets, TLC

\* ------------------------------------------------------------------ bounds
\* Callbacks the host makes over a whole run. Each runs on a host thread of
\* its own, so any number of them can be in flight at once.
MaxEvents == 3

Threads == 1..MaxEvents
\* Addresses `new ModuleMetadata` can return: at most one per callback.
RecIds == 1..MaxEvents
\* A null ModuleMetadata*.
NULL == 0

\* -------------------------------------------------------------- host side
\* Module identities the host reports, with what GetModuleInfo2 and
\* GetAssemblyName return for each.
Modules == {"M1", "M2"}
ModuleAssembly == [M1 |-> "A", M2 |-> "A"]
ModuleIsWinRT == [M1 |-> FALSE, M2 |-> TRUE]

\* Metadata tokens: a table kind (TypeFromToken) and a row id.
Tok(type, rid) == [type |-> type, rid |-> rid]
TypeFromToken(tok) == tok.type
mdMemberRefNil == Tok("mdtMemberRef", 0)
mdTokenNil == Tok("mdtNil", 0)

\* The static metadata tables of a module, as IMetaDataImport reads them.
\* GetTypeRefProps / GetTypeDefProps: the type's name.
TypeRefProps == <<"Math", "Other">>
TypeDefProps == <<"Math", "C">>
\* GetMethodProps: the method's name and its owning type definition.
MethodProps ==
  << [name |-> "Add", class |-> Tok("mdtTypeDef", 1)],
     [name |-> "Foo", class |-> Tok("mdtTypeDef", 2)],
     [name |-> "Neg", class |-> Tok("mdtTypeDef", 1)] >>
\* GetMemberRefProps: the member's name and its parent scope token. The last
\* row names its member "Add" under a method definition called "Neg".
MemberRefProps ==
  << [name |-> "Add", parent |-> Tok("mdtTypeRef", 1)],
     [name |-> "Sub", parent |-> Tok("mdtTypeDef", 1)],
     [name |-> "Add", parent |-> Tok("mdtMethodDef", 1)],
     [name |-> "Add", parent |-> Tok("mdtModuleRef", 1)],
     [name |-> "Add", parent |-> Tok("mdtTypeRef", 2)],
     [name |-> "Add", parent |-> Tok("mdtMethodDef", 3)] >>
\* Member references the wrapper emission adds get the row ids after these.
NumStaticMemberRefs == Len(MemberRefProps)

\* The method the host compiles, C::Foo (its method-definition token), and
\* the instruction stream ILRewriter::Import reads for it.
FunctionTokens == {Tok("mdtMethodDef", 2)}
Instr(op, arg) == [m_opcode |-> op, m_Arg32 |-> arg]
OrigIL(functionToken) ==
  << Instr("CEE_CALL", Tok("mdtMemberRef", 1)),
     Instr("CEE_CALLVIRT", Tok("mdtMemberRef", 2)),
     Instr("CEE_LDARG", mdTokenNil),
     Instr("CEE_CALLVIRT", Tok("mdtMethodDef", 1)),
     Instr("CEE_CALL", Tok("mdtMemberRef", 3)),
     Instr("CEE_CALL", Tok("mdtMemberRef", 4)),
     Instr("CEE_CALL", Tok("mdtMemberRef", 5)),
     Instr("CEE_CALL", Tok("mdtMemberRef", 6)) >>

\* ------------------------------------------------------------ integrations
\* method_replacement: caller_method, target_method, wrapper_method.
Repl(ca, ct, cm, tt, tm, wa, wk) ==
  [ caller_method  |-> [assembly |-> ca, type_name |-> ct, method_name |-> cm],
    target_method  |-> [type_name |-> tt, method_name |-> tm],
    wrapper_method |-> [assembly |-> wa, key |-> wk] ]

R1 == Repl("A", "C", "Foo", "Math", "Add", "Wrap", "W1")
R2 == Repl("B", "", "", "Math", "Sub", "Wrap", "W2")
R3 == Repl("A", "", "Bar", "Math", "Add", "Wrap2", "W3")
R4 == Repl("", "", "", "Math", "Mul", "Wrap", "W1")
R5 == Repl("", "C", "", "Math", "Add", "Wrap", "W1")
R6 == Repl("B", "", "", "Math", "Add", "Wrap", "W1")

\* What LoadIntegrationsFromEnvironment may have returned: each catalog is a
\* sequence of integrations, each integration its method_replacements.
Catalogs ==
  { << <<R2, R1>>, <<R3>> >>,
    << <<R4, R5>> >>,
    << <<R6>> >> }

WrapperKeys == {"W1", "W2", "W3"}

RECURSIVE Flatten(_)
\* The replacements in the order the nested loops over integrations visit them.
Flatten(ints) ==
  IF ints = <<>> THEN <<>> ELSE Head(ints) \o Flatten(Tail(ints))

\* What a dangling read can return for a wrapper reference besides the stale one.
GarbageRef == Tok("mdtMemberRef", 999)

\* ------------------------------------------------------------------- state
VARIABLES
  integrations_,            \* CorProfiler::integrations_, fixed at construction
  module_id_to_info_map_,   \* ModuleID -> ModuleMetadata* (NULL: no entry)
  heap,                     \* the ModuleMetadata objects made by `new`
  symtab,                   \* per module: what was emitted into its metadata
  hostIL,                   \* per module and method: the body the host compiles
  thr,                      \* per callback (host thread): its position and locals
  crashed,                  \* the process died of undefined behaviour
  unloaded,                 \* history: an unload of the module completed and no
                            \* load has stored a record for it since the unload
                            \* erased the entry (or found none)
  events                    \* history: callbacks the host has made so far

vars == << integrations_, module_id_to_info_map_, heap, symtab, hostIL, thr,
           crashed, unloaded, events >>

NoRefs == [k \in WrapperKeys |-> mdMemberRefNil]

\* A heap slot `new` has not handed out yet. A record keeps what it held
\* after it was deleted (state "freed"): that is the stale content a dangling
\* read may still see. frees counts the deletes; inserted is history: the
\* record was stored in module_id_to_info_map_.
Unallocated ==
  [ state |-> "unallocated", frees |-> 0, inserted |-> FALSE,
    assembly_name |-> "", integrations |-> <<>>, wrapper_refs |-> NoRefs ]

\* A callback the host has not made yet.
Idle ==
  [ pc |-> "idle", ev |-> "none", moduleId |-> "none",
    functionToken |-> mdTokenNil, moduleMetadata |-> NULL,
    caller |-> [type_name |-> "", name |-> ""],
    ri |-> 0, pInstr |-> 0, il |-> <<>>,
    wrapper_method_ref |-> mdMemberRefNil, modified |-> FALSE,
    \* history of the event, kept until the callback returns
    hr_failed |-> FALSE, committed |-> FALSE, used_after_free |-> FALSE,
    emit_failed |-> FALSE, emit_reached |-> FALSE, clean |-> FALSE,
    after_unload |-> FALSE, il_before |-> <<>>,
    \* the event returned at line 233: no wrapper reference in the cache
    missing_ref |-> FALSE,
    \* type-name reads (GetTypeRefProps, GetTypeDefProps) the loop body made
    \* for the instruction it scanned last
    type_reads |-> 0 ]

Init ==
  /\ integrations_ \in Catalogs
  /\ module_id_to_info_map_ = [m \in Modules |-> NULL]
  /\ heap = [r \in RecIds |-> Unallocated]
  /\ symtab = [m \in Modules |-> [assemblyRefs |-> {}, memberRefs |-> <<>>]]
  /\ hostIL = [m \in Modules |-> [f \in FunctionTokens |-> OrigIL(f)]]
  /\ thr = [t \in Threads |-> Idle]
  /\ crashed = FALSE
  /\ unloaded = [m \in Modules |-> FALSE]
  /\ events = 0

\* ------------------------------------------------ module_id_to_info_map_
\* Each operation of the map is atomic (one lock around each call).
LookupIfExists(map, moduleId) == map[moduleId]
Update(map, moduleId, info) == [map EXCEPT ![moduleId] = info]
Erase(map, moduleId) == [map EXCEPT ![moduleId] = NULL]

IsFreed(r) == heap[r].state = "freed"

\* The callback returns S_OK: the thread stays at "done" with what the
\* callback did.
Done(t, rec) == [rec EXCEPT !.pc = "done"]

\* JITCompilationStarted returns without a commit: its locals (the rewriter
\* and its working copy of the stream among them) are gone.
DoneNoCommit(t, rec) ==
  [rec EXCEPT !.pc = "done", !.caller = Idle.caller, !.ri = 0, !.pInstr = 0,
              !.il = <<>>, !.wrapper_method_ref = mdMemberRefNil,
              !.type_reads = 0]

\* ------------------------------------------------------ ModuleLoadFinished
\* Mutant of CallerAssemblyPasses: the filter lets every replacement through.
CallerAssemblyPasses_Always(method_replacement, assembly_name) ==
  \/ method_replacement.caller_method.assembly = ""
  \/ method_replacement.caller_method.assembly # ""

\* Lines 112-113: the caller assembly is empty or names this assembly.
CallerAssemblyPasses(method_replacement, assembly_name) ==
  \/ method_replacement.caller_method.assembly = ""
  \/ method_replacement.caller_method.assembly = assembly_name

RECURSIVE PushPerMatch(_, _, _)
\* The inner loop: the integration is pushed once per passing replacement.
PushPerMatch(integration, reps, assembly_name) ==
  IF reps = <<>> THEN <<>>
  ELSE (IF CallerAssemblyPasses(Head(reps), assembly_name)
        THEN <<integration>> ELSE <<>>)
       \o PushPerMatch(integration, Tail(reps), assembly_name)

RECURSIVE EnabledIntegrations(_, _)
EnabledIntegrations(ints, assembly_name) ==
  IF ints = <<>> THEN <<>>
  ELSE PushPerMatch(Head(ints), Head(ints), assembly_name)
       \o EnabledIntegrations(Tail(ints), assembly_name)

\* MetadataBuilder::EmitAssemblyRef: the assembly reference, added once.
EmitAssemblyRef(st, assembly) ==
  [st EXCEPT !.assemblyRefs = @ \cup {assembly}]

\* MetadataBuilder::StoreWrapperMethodRef: reuse the cached handle of the
\* wrapper's cache key, else define a member reference and cache its token.
StoreWrapperMethodRef(st, method_replacement) ==
  LET key == method_replacement.wrapper_method.key IN
  IF st.wrapper_refs[key] # mdMemberRefNil THEN st
  ELSE [st EXCEPT
          !.memberRefs = Append(@, key),
          !.wrapper_refs[key] =
             Tok("mdtMemberRef", NumStaticMemberRefs + Len(st.memberRefs) + 1)]

RECURSIVE EmitAll(_, _, _, _)
\* The emission loop over the enabled integrations' replacements. Each
\* replacement makes two host calls; call number failAt fails (0: none) and
\* the loop returns there (RETURN_OK_IF_FAILED).
EmitAll(reps, k, failAt, st) ==
  IF reps = <<>> THEN st
  ELSE IF failAt = k + 1 THEN [st EXCEPT !.ok = FALSE]
  ELSE LET st1 == EmitAssemblyRef(st, Head(reps).wrapper_method.assembly) IN
       IF failAt = k + 2 THEN [st1 EXCEPT !.ok = FALSE]
       ELSE EmitAll(Tail(reps), k + 2, failAt,
                    StoreWrapperMethodRef(st1, Head(reps)))

FreshRecIds == {r \in RecIds : heap[r].state = "unallocated"}

\* History only: a load stores a record for m, so the unloads of m in flight
\* are no longer unloads "with no record stored since they removed theirs".
NoteStore(t, m, rec) ==
  [u \in Threads |->
     IF u = t THEN rec
     ELSE IF thr[u].ev = "unload" /\ thr[u].moduleId = m
          THEN [thr[u] EXCEPT !.clean = FALSE] ELSE thr[u]]

\* Lines 82-167: everything the callback does before it publishes the record.
ModuleLoadFinished(t, moduleId) ==
  /\ ~crashed
  /\ thr[t].pc = "idle"
  /\ t = events + 1
  /\ events' = events + 1
  /\ LET me == [Idle EXCEPT !.ev = "load", !.moduleId = moduleId]
         assembly_name == ModuleAssembly[moduleId]
         enabledIntegrations == EnabledIntegrations(integrations_, assembly_name)
         reps == Flatten(enabledIntegrations)
     IN
     /\ UNCHANGED << integrations_, module_id_to_info_map_, hostIL, crashed, unloaded >>
     /\ \/ \* GetModuleInfo2 fails
           /\ thr' = [thr EXCEPT ![t] = Done(t, [me EXCEPT !.hr_failed = TRUE])]
           /\ UNCHANGED << heap, symtab >>
        \/ \* a Windows Runtime module, or nothing to instrument in it
           /\ ModuleIsWinRT[moduleId] \/ enabledIntegrations = <<>>
           /\ thr' = [thr EXCEPT ![t] = Done(t, me)]
           /\ UNCHANGED << heap, symtab >>
        \/ \* GetModuleMetaData or GetModuleFromScope fails
           /\ ~ModuleIsWinRT[moduleId] /\ enabledIntegrations # <<>>
           /\ thr' = [thr EXCEPT ![t] = Done(t, [me EXCEPT !.hr_failed = TRUE])]
           /\ UNCHANGED << heap, symtab >>
        \/ \* new ModuleMetadata, then the emission loop
           /\ ~ModuleIsWinRT[moduleId] /\ enabledIntegrations # <<>>
           /\ FreshRecIds # {}
           /\ \E failAt \in 0 .. 2 * Len(reps) :
                LET r == CHOOSE x \in FreshRecIds : \A y \in FreshRecIds : x <= y
                    st == EmitAll(reps, 0, failAt,
                                  [ assemblyRefs |-> symtab[moduleId].assemblyRefs,
                                    memberRefs |-> symtab[moduleId].memberRefs,
                                    wrapper_refs |-> NoRefs, ok |-> TRUE ])
                    me2 == [me EXCEPT !.moduleMetadata = r, !.emit_reached = TRUE]
                IN
                /\ heap' = [heap EXCEPT ![r] =
                             [ state |-> "live", frees |-> 0, inserted |-> FALSE,
                               assembly_name |-> assembly_name,
                               integrations |-> enabledIntegrations,
                               wrapper_refs |-> st.wrapper_refs ]]
                /\ symtab' = [symtab EXCEPT ![moduleId] =
                               [ assemblyRefs |-> st.assemblyRefs,
                                 memberRefs |-> st.memberRefs ]]
                /\ thr' = [thr EXCEPT ![t] =
                            IF st.ok THEN [me2 EXCEPT !.pc = "load_store"]
                            ELSE Done(t, [me2 EXCEPT !.emit_failed = TRUE,
                                                     !.hr_failed = TRUE])]

\* Line 170: module_id_to_info_map_.Update(moduleId, moduleMetadata).
StoreModuleInfo(t) ==
  /\ ~crashed
  /\ thr[t].pc = "load_store"
  /\ module_id_to_info_map_' =
       Update(module_id_to_info_map_, thr[t].moduleId, thr[t].moduleMetadata)
  /\ heap' = [heap EXCEPT ![thr[t].moduleMetadata].inserted = TRUE]
  /\ thr' = NoteStore(t, thr[t].moduleId, Done(t, thr[t]))
  /\ unloaded' = [unloaded EXCEPT ![thr[t].moduleId] = FALSE]
  /\ UNCHANGED << integrations_, symtab, hostIL, crashed, events >>

\* ---------------------------------------------------- ModuleUnloadFinished
\* An unload completes; history: it was clean if no load has stored a record
\* for the module since the unload erased the entry (or found none).
NoteUnloaded(t) ==
  IF thr[t].clean THEN [unloaded EXCEPT ![thr[t].moduleId] = TRUE] ELSE unloaded

\* Line 178: LookupIfExists.
ModuleUnloadFinished(t, moduleId) ==
  /\ ~crashed
  /\ thr[t].pc = "idle"
  /\ t = events + 1
  /\ events' = events + 1
  /\ LET metadata == LookupIfExists(module_id_to_info_map_, moduleId)
         me == [Idle EXCEPT !.ev = "unload", !.moduleId = moduleId,
                            !.moduleMetadata = metadata,
                            !.clean = (metadata = NULL)]
     IN
     IF metadata # NULL
     THEN /\ thr' = [thr EXCEPT ![t] = [me EXCEPT !.pc = "unload_erase"]]
          /\ UNCHANGED unloaded
     ELSE /\ thr' = [thr EXCEPT ![t] = Done(t, me)]
          /\ unloaded' = IF me.clean THEN [unloaded EXCEPT ![moduleId] = TRUE]
                         ELSE unloaded
  /\ UNCHANGED << integrations_, module_id_to_info_map_, heap, symtab, hostIL, crashed >>

\* Mutant of UnloadErase: the entry is left in the map.
UnloadErase_NoErase(t) ==
  /\ ~crashed
  /\ thr[t].pc = "unload_erase"
  /\ thr' = [thr EXCEPT ![t].pc = "unload_delete", ![t].clean = TRUE]
  /\ UNCHANGED << integrations_, module_id_to_info_map_, heap, symtab, hostIL,
                  crashed, unloaded, events >>

\* Line 179: Erase.
UnloadErase(t) ==
  /\ ~crashed
  /\ thr[t].pc = "unload_erase"
  /\ module_id_to_info_map_' = Erase(module_id_to_info_map_, thr[t].moduleId)
  /\ thr' = [thr EXCEPT ![t].pc = "unload_delete", ![t].clean = TRUE]
  /\ UNCHANGED << integrations_, heap, symtab, hostIL, crashed, unloaded, events >>

\* Line 180: delete metadata. The record's memory is released; a second
\* delete of the same pointer is counted.
UnloadDelete(t) ==
  /\ ~crashed
  /\ thr[t].pc = "unload_delete"
  /\ heap' = [heap EXCEPT ![thr[t].moduleMetadata].state = "freed",
                          ![thr[t].moduleMetadata].frees = @ + 1]
  /\ thr' = [thr EXCEPT ![t] = Done(t, thr[t])]
  /\ unloaded' = NoteUnloaded(t)
  /\ UNCHANGED << integrations_, module_id_to_info_map_, symtab, hostIL, crashed, events >>

\* --------------------------------------------------- JITCompilationStarted
\* Reads through moduleMetadata. While the record is live a read returns what
\* the record holds; once it was deleted the pointer dangles and the read
\* returns the stale value or anything else of the field's type.
ReadReplacement(r, ri) ==
  IF IsFreed(r) THEN {Flatten(integrations_)[i] : i \in 1..Len(Flatten(integrations_))}
  ELSE {Flatten(heap[r].integrations)[ri]}

\* TryGetWrapperMemberRef: the cached token, mdMemberRefNil when there is none.
TryGetWrapperMemberRef(r, key) ==
  IF IsFreed(r) THEN {heap[r].wrapper_refs[key], mdMemberRefNil, GarbageRef}
  ELSE {heap[r].wrapper_refs[key]}

\* Lines 218-222: the caller pattern, an empty field matching anything.
CallerMatches(method_replacement, caller) ==
  /\ \/ method_replacement.caller_method.type_name = ""
     \/ method_replacement.caller_method.type_name = caller.type_name
  /\ \/ method_replacement.caller_method.method_name = ""
     \/ method_replacement.caller_method.method_name = caller.name

\* What one pass of the loop body does to one instruction: the instruction it
\* leaves, whether it rewrote it, whether a metadata read failed, and how many
\* type-name reads it made. Metadata read number failAt of this instruction
\* fails (0: none).
Scanned(instr, modified, typeReads) ==
  [instr |-> instr, modified |-> modified, failed |-> FALSE, typeReads |-> typeReads]
ReadFailed(instr, typeReads) ==
  [instr |-> instr, modified |-> FALSE, failed |-> TRUE, typeReads |-> typeReads]

\* Lines 327-338, label compare_type_and_method_names.
CompareTypeAndMethodNames(instr, mr, ref, target_type_name, target_method_name, typeReads) ==
  IF /\ mr.target_method.type_name = target_type_name
     /\ mr.target_method.method_name = target_method_name
  THEN Scanned(Instr("CEE_CALL", ref), TRUE, typeReads)
  ELSE Scanned(instr, FALSE, typeReads)

\* Lines 320-325, label use_type_def: n metadata reads were made before it.
UseTypeDef(instr, mr, ref, target_type_def, target_method_name, n, failAt) ==
  IF failAt = n + 1 THEN ReadFailed(instr, 1)
  ELSE CompareTypeAndMethodNames(instr, mr, ref,
         TypeDefProps[target_type_def.rid], target_method_name, 1)

\* Lines 306-318, label use_method_def.
UseMethodDef(instr, mr, ref, target_method_def, n, failAt) ==
  IF failAt = n + 1 THEN ReadFailed(instr, 0)
  ELSE LET props == MethodProps[target_method_def.rid] IN
       IF mr.target_method.method_name # props.name
       THEN Scanned(instr, FALSE, 0)
       ELSE UseTypeDef(instr, mr, ref, props.class, props.name, n + 1, failAt)

\* Lines 247-339: the body of the instruction loop.
ScanInstr(instr, mr, ref, failAt) ==
  IF ~ ( /\ instr.m_opcode \in {"CEE_CALL", "CEE_CALLVIRT"}
         /\ TypeFromToken(instr.m_Arg32) \in {"mdtMemberRef", "mdtMethodDef"} )
  THEN Scanned(instr, FALSE, 0)
  ELSE IF TypeFromToken(instr.m_Arg32) = "mdtMemberRef"
  THEN IF failAt = 1 THEN ReadFailed(instr, 0)
       ELSE LET props == MemberRefProps[instr.m_Arg32.rid]
                token == props.parent
            IN
            IF mr.target_method.method_name # props.name
            THEN Scanned(instr, FALSE, 0)
            ELSE IF TypeFromToken(token) = "mdtTypeRef"
            THEN IF failAt = 2 THEN ReadFailed(instr, 1)
                 ELSE CompareTypeAndMethodNames(instr, mr, ref,
                        TypeRefProps[token.rid], props.name, 1)
            ELSE IF TypeFromToken(token) = "mdtTypeDef"
            THEN UseTypeDef(instr, mr, ref, token, props.name, 1, failAt)
            ELSE IF TypeFromToken(token) = "mdtMethodDef"
            THEN UseMethodDef(instr, mr, ref, token, 1, failAt)
            ELSE Scanned(instr, FALSE, 0)
  ELSE UseMethodDef(instr, mr, ref, instr.m_Arg32, 0, failAt)

\* The instruction is one the loop body looks at through moduleMetadata.
IsCallSite(instr) ==
  /\ instr.m_opcode \in {"CEE_CALL", "CEE_CALLVIRT"}
  /\ TypeFromToken(instr.m_Arg32) \in {"mdtMemberRef", "mdtMethodDef"}

\* The host compiles a method on one thread at a time.
Compiling(m, f) ==
  \E u \in Threads : /\ thr[u].ev = "jit" /\ thr[u].pc # "done"
                     /\ thr[u].moduleId = m /\ thr[u].functionToken = f

\* Lines 187-201: GetFunctionInfo, then the lookup of the module's record.
JITCompilationStarted(t, moduleId, functionToken) ==
  /\ ~crashed
  /\ thr[t].pc = "idle"
  /\ t = events + 1
  /\ events' = events + 1
  /\ ~Compiling(moduleId, functionToken)
  /\ LET me == [Idle EXCEPT !.ev = "jit", !.moduleId = moduleId,
                            !.functionToken = functionToken,
                            !.after_unload = unloaded[moduleId],
                            !.il_before = hostIL[moduleId][functionToken]]
         moduleMetadata == LookupIfExists(module_id_to_info_map_, moduleId)
     IN
     \/ \* GetFunctionInfo fails
        thr' = [thr EXCEPT ![t] = DoneNoCommit(t, [me EXCEPT !.hr_failed = TRUE])]
     \/ /\ moduleMetadata = NULL
        /\ thr' = [thr EXCEPT ![t] = DoneNoCommit(t, me)]
     \/ /\ moduleMetadata # NULL
        /\ thr' = [thr EXCEPT ![t] = [me EXCEPT !.pc = "jit_caller",
                                                !.moduleMetadata = moduleMetadata]]
  /\ UNCHANGED << integrations_, module_id_to_info_map_, heap, symtab, hostIL,
                  crashed, unloaded >>

\* Lines 204-208: the compiling method's own type and name, read through
\* moduleMetadata->metadata_import.
JitGetCaller(t) ==
  /\ ~crashed
  /\ thr[t].pc = "jit_caller"
  /\ LET me == [thr[t] EXCEPT !.used_after_free = IsFreed(thr[t].moduleMetadata)]
         props == MethodProps[thr[t].functionToken.rid]
     IN
     \/ \* !caller.isvalid()
        thr' = [thr EXCEPT ![t] = DoneNoCommit(t, [me EXCEPT !.hr_failed = TRUE])]
     \/ thr' = [thr EXCEPT ![t] =
                 [me EXCEPT !.pc = "jit_rule", !.ri = 1,
                            !.caller = [type_name |-> TypeDefProps[props.class.rid],
                                        name |-> props.name]]]
  /\ UNCHANGED << integrations_, module_id_to_info_map_, heap, symtab, hostIL,
                  crashed, unloaded, events >>

\* Lines 213-240: the next method_replacement of the two nested loops, its
\* caller check, its wrapper reference, and ILRewriter::Import.
JitNextReplacement(t) ==
  /\ ~crashed
  /\ thr[t].pc = "jit_rule"
  /\ LET r == thr[t].moduleMetadata
         n == Len(Flatten(heap[r].integrations))
     IN
     IF thr[t].ri > n
     THEN \* line 350
          thr' = [thr EXCEPT ![t] = DoneNoCommit(t, thr[t])]
     ELSE LET me == [thr[t] EXCEPT !.used_after_free = @ \/ IsFreed(r)] IN
          \E method_replacement \in ReadReplacement(r, thr[t].ri) :
            IF ~CallerMatches(method_replacement, thr[t].caller)
            THEN thr' = [thr EXCEPT ![t] = [me EXCEPT !.ri = @ + 1]]
            ELSE \E ref \in TryGetWrapperMemberRef(r, method_replacement.wrapper_method.key) :
                   IF ref = mdMemberRefNil
                   THEN \* line 233
                        thr' = [thr EXCEPT ![t] =
                                 DoneNoCommit(t, [me EXCEPT !.missing_ref = TRUE])]
                   ELSE \/ \* rewriter.Import() fails
                           thr' = [thr EXCEPT ![t] = DoneNoCommit(t, [me EXCEPT !.hr_failed = TRUE])]
                        \/ thr' = [thr EXCEPT ![t] =
                                    [me EXCEPT !.pc = "jit_scan", !.pInstr = 1,
                                               !.il = OrigIL(thr[t].functionToken),
                                               !.wrapper_method_ref = ref,
                                               !.modified = FALSE]]
  /\ UNCHANGED << integrations_, module_id_to_info_map_, heap, symtab, hostIL,
                  crashed, unloaded, events >>

\* Mutant of JitScanInstr: a failed metadata read skips the instruction
\* instead of returning.
JitScanInstr_IgnoreFailure(t) ==
  /\ ~crashed
  /\ thr[t].pc = "jit_scan"
  /\ thr[t].pInstr <= Len(thr[t].il)
  /\ LET r == thr[t].moduleMetadata
         instr == thr[t].il[thr[t].pInstr]
         me == [thr[t] EXCEPT !.used_after_free = @ \/ (IsCallSite(instr) /\ IsFreed(r))]
     IN
     \E method_replacement \in ReadReplacement(r, thr[t].ri), failAt \in 0..3 :
       LET res == ScanInstr(instr, method_replacement, thr[t].wrapper_method_ref, failAt) IN
       thr' = [thr EXCEPT ![t] =
                [me EXCEPT !.il[thr[t].pInstr] = res.instr,
                           !.modified = @ \/ res.modified,
                           !.hr_failed = @ \/ res.failed,
                           !.type_reads = res.typeReads,
                           !.pInstr = @ + 1]]
  /\ UNCHANGED << integrations_, module_id_to_info_map_, heap, symtab, hostIL,
                  crashed, unloaded, events >>

\* Lines 245-340: one instruction of the scan, rewritten in place on a match.
JitScanInstr(t) ==
  /\ ~crashed
  /\ thr[t].pc = "jit_scan"
  /\ thr[t].pInstr <= Len(thr[t].il)
  /\ LET r == thr[t].moduleMetadata
         instr == thr[t].il[thr[t].pInstr]
         me == [thr[t] EXCEPT !.used_after_free = @ \/ (IsCallSite(instr) /\ IsFreed(r))]
     IN
     \E method_replacement \in ReadReplacement(r, thr[t].ri), failAt \in 0..3 :
       LET res == ScanInstr(instr, method_replacement, thr[t].wrapper_method_ref, failAt) IN
       IF res.failed
       THEN thr' = [thr EXCEPT ![t] = DoneNoCommit(t, [me EXCEPT !.hr_failed = TRUE])]
       ELSE thr' = [thr EXCEPT ![t] =
                     [me EXCEPT !.il[thr[t].pInstr] = res.instr,
                                !.modified = @ \/ res.modified,
                                !.type_reads = res.typeReads,
                                !.pInstr = @ + 1]]
  /\ UNCHANGED << integrations_, module_id_to_info_map_, heap, symtab, hostIL,
                  crashed, unloaded, events >>

\* Mutant of JitScanEnd: the stream is exported whether or not the scan
\* modified it.
JitScanEnd_ExportUnmodified(t) ==
  /\ ~crashed
  /\ thr[t].pc = "jit_scan"
  /\ thr[t].pInstr > Len(thr[t].il)
  /\ \/ /\ hostIL' = [hostIL EXCEPT ![thr[t].moduleId][thr[t].functionToken] = thr[t].il]
        /\ thr' = [thr EXCEPT ![t] = Done(t, [thr[t] EXCEPT !.committed = TRUE,
                                                             !.type_reads = 0])]
     \/ /\ thr' = [thr EXCEPT ![t] = DoneNoCommit(t, thr[t])]
        /\ UNCHANGED hostIL
  /\ UNCHANGED << integrations_, module_id_to_info_map_, heap, symtab, crashed, unloaded, events >>

\* Lines 342-346: the scan is over; Export and return if it modified the
\* stream, else on to the next method_replacement. Export's result is ignored.
JitScanEnd(t) ==
  /\ ~crashed
  /\ thr[t].pc = "jit_scan"
  /\ thr[t].pInstr > Len(thr[t].il)
  /\ IF thr[t].modified
     THEN \/ /\ hostIL' = [hostIL EXCEPT ![thr[t].moduleId][thr[t].functionToken] = thr[t].il]
             /\ thr' = [thr EXCEPT ![t] = Done(t, [thr[t] EXCEPT !.committed = TRUE,
                                                                  !.type_reads = 0])]
          \/ \* rewriter.Export() fails
             /\ thr' = [thr EXCEPT ![t] = DoneNoCommit(t, thr[t])]
             /\ UNCHANGED hostIL
     ELSE /\ thr' = [thr EXCEPT ![t].pc = "jit_rule", ![t].ri = @ + 1,
                                ![t].type_reads = 0]
          /\ UNCHANGED hostIL
  /\ UNCHANGED << integrations_, module_id_to_info_map_, heap, symtab, crashed, unloaded, events >>

\* ------------------------------------------------------------ environment
\* The thread's next step touches memory that was already deleted.
AboutToUseFreed(t) ==
  \/ /\ thr[t].pc \in {"jit_caller", "jit_rule", "jit_scan"}
     /\ IsFreed(thr[t].moduleMetadata)
  \/ /\ thr[t].pc = "unload_delete"
     /\ IsFreed(thr[t].moduleMetadata)

\* One outcome of a read through a dangling pointer, or of a second delete:
\* the process dies.
Crash(t) ==
  /\ ~crashed
  /\ AboutToUseFreed(t)
  /\ crashed' = TRUE
  /\ thr' = [thr EXCEPT ![t].used_after_free = (thr[t].ev = "jit")]
  /\ UNCHANGED << integrations_, module_id_to_info_map_, heap, symtab, hostIL, unloaded, events >>

Next ==
  \E t \in Threads :
    \/ \E m \in Modules : ModuleLoadFinished(t, m)
    \/ StoreModuleInfo(t)
    \/ \E m \in Modules : ModuleUnloadFinished(t, m)
    \/ UnloadErase(t)
    \/ UnloadDelete(t)
    \/ \E m \in Modules, f \in FunctionTokens : JITCompilationStarted(t, m, f)
    \/ JitGetCaller(t)
    \/ JitNextReplacement(t)
    \/ JitScanInstr(t)
    \/ JitScanEnd(t)
    \/ Crash(t)

Spec == Init /\ [][Next]_vars

\* The host runs every callback it has made to its end: a thread that can
\* take a step takes it.
FairSpec == Spec /\ WF_vars(Next)

\* ======================================================================
\* Properties
\* ======================================================================
\* The (declaring type, method name) a call operand names in the metadata
\* tables, "none" when the operand does not name a method of a type.
NoTarget == [type_name |-> "none", method_name |-> "none"]
Resolved(tok) ==
  IF TypeFromToken(tok) = "mdtMethodDef"
  THEN [type_name |-> TypeDefProps[MethodProps[tok.rid].class.rid],
        method_name |-> MethodProps[tok.rid].name]
  ELSE IF TypeFromToken(tok) = "mdtMemberRef" /\ tok.rid \in 1..Len(MemberRefProps)
  THEN LET parent == MemberRefProps[tok.rid].parent IN
       IF TypeFromToken(parent) = "mdtTypeRef"
       THEN [type_name |-> TypeRefProps[parent.rid],
             method_name |-> MemberRefProps[tok.rid].name]
       ELSE IF TypeFromToken(parent) = "mdtTypeDef"
       THEN [type_name |-> TypeDefProps[parent.rid],
             method_name |-> MemberRefProps[tok.rid].name]
       ELSE IF TypeFromToken(parent) = "mdtMethodDef"
       THEN [type_name |-> TypeDefProps[MethodProps[parent.rid].class.rid],
             method_name |-> MethodProps[parent.rid].name]
       ELSE NoTarget
  ELSE NoTarget

\* instr is a call or virtual call whose resolved target is the given one.
IsTargetSite(instr, target_method) ==
  /\ instr.m_opcode \in {"CEE_CALL", "CEE_CALLVIRT"}
  /\ Resolved(instr.m_Arg32) = target_method

HasTargetSite(il, target_method) ==
  \E i \in 1..Len(il) : IsTargetSite(il[i], target_method)

\* The compiling method's own (type, name).
CallerOf(functionToken) ==
  [type_name |-> TypeDefProps[MethodProps[functionToken.rid].class.rid],
   name |-> MethodProps[functionToken.rid].name]

JitEvents == {t \in Threads : thr[t].ev = "jit"}
LoadEvents == {t \in Threads : thr[t].ev = "load"}
UnloadEvents == {t \in Threads : thr[t].ev = "unload"}
Committed == {t \in JitEvents : thr[t].committed}

\* The enabled replacements of the record a compilation event looked up, and
\* the one whose scan it committed.
EnabledOf(t) == Flatten(heap[thr[t].moduleMetadata].integrations)
AppliedBy(t) == EnabledOf(t)[thr[t].ri]

\* C1: a compilation event never reads a ModuleMetadata record after an
\* unload has released it.
C1_NeverReadsReleasedRecord ==
  \A t \in JitEvents : ~thr[t].used_after_free

\* C2: a compilation event in which a host read or the import failed commits
\* nothing, and whatever is committed is the working copy of a scan that ran
\* over the whole instruction stream without a failure.
C2_Step(t) ==
  (thr'[t] # thr[t] /\ thr'[t].ev = "jit") =>
    /\ thr'[t].hr_failed => (hostIL' = hostIL /\ ~thr'[t].committed)
    /\ hostIL' # hostIL =>
         /\ thr[t].pc = "jit_scan"
         /\ thr[t].pInstr = Len(OrigIL(thr[t].functionToken)) + 1
         /\ hostIL'[thr[t].moduleId][thr[t].functionToken] = thr[t].il
         /\ thr'[t].committed
C2_FailureCommitsNothing ==
  [][\A t \in Threads : C2_Step(t)]_vars

\* C2 witness: a scan that had already rewritten an instruction hit a failed
\* metadata read, and the host still has the original body.
C2_Witness ==
  \E t \in JitEvents :
    /\ thr[t].pc = "done" /\ thr[t].hr_failed /\ thr[t].modified
    /\ ~thr[t].committed
    /\ hostIL[thr[t].moduleId][thr[t].functionToken] = OrigIL(thr[t].functionToken)

\* C3: a committed event rewrote the call sites of one replacement only, the
\* first enabled one that matches the caller and has a call site in the body;
\* the call sites of every other replacement are untouched.
C3_SingleRewritePerCompilation ==
  \A t \in Committed :
    LET orig == OrigIL(thr[t].functionToken) IN
    /\ \A i \in 1..Len(orig) :
         thr[t].il[i] # orig[i] => IsTargetSite(orig[i], AppliedBy(t).target_method)
    /\ \A j \in 1..(thr[t].ri - 1) :
         CallerMatches(EnabledOf(t)[j], CallerOf(thr[t].functionToken))
           => ~HasTargetSite(orig, EnabledOf(t)[j].target_method)

\* C4: a committed scan rewrote every call site of the applied replacement's
\* target, however many there are.
C4_AllSitesRewritten ==
  \A t \in Committed :
    LET orig == OrigIL(thr[t].functionToken) IN
    \A i \in 1..Len(orig) :
      IsTargetSite(orig[i], AppliedBy(t).target_method)
        => thr[t].il[i] = Instr("CEE_CALL", thr[t].wrapper_method_ref)

\* C5: a committed stream keeps length and order; every instruction is the
\* original one or a call site of the applied replacement's target turned
\* into a direct call of the wrapper handle cached in the module's record.
C5_OnlyMatchingSitesChanged ==
  \A t \in Committed :
    LET orig == OrigIL(thr[t].functionToken)
        handle == heap[thr[t].moduleMetadata].wrapper_refs[AppliedBy(t).wrapper_method.key]
    IN
    /\ Len(thr[t].il) = Len(orig)
    /\ hostIL[thr[t].moduleId][thr[t].functionToken] = thr[t].il
    /\ \A i \in 1..Len(orig) :
         \/ thr[t].il[i] = orig[i]
         \/ /\ IsTargetSite(orig[i], AppliedBy(t).target_method)
            /\ thr[t].il[i] = Instr("CEE_CALL", handle)

\* C6: once an unload of a module has completed, and as long as no load has
\* stored a record for it since the unload erased the entry, the map has no
\* record for it, and a compilation event that starts then finds none and
\* commits nothing.
C6_UnloadClearsState ==
  /\ \A m \in Modules : unloaded[m] => module_id_to_info_map_[m] = NULL
  /\ \A t \in JitEvents :
       thr[t].after_unload =>
         /\ thr[t].pc = "done"
         /\ thr[t].moduleMetadata = NULL
         /\ ~thr[t].committed

\* C6 witness: an unload removed a record, and a compilation event for the
\* same module that started after it has finished.
C6_Witness ==
  \E u \in UnloadEvents, t \in JitEvents :
    /\ thr[u].pc = "done" /\ thr[u].moduleMetadata # NULL
    /\ thr[t].moduleId = thr[u].moduleId
    /\ thr[t].after_unload /\ thr[t].pc = "done"

\* C7: a record is released at most once, and never while the map still
\* holds it.
C7_ReleasedExactlyOnce ==
  \A r \in RecIds :
    /\ heap[r].frees <= 1
    /\ heap[r].state = "freed" => \A m \in Modules : module_id_to_info_map_[m] # r

\* C8: every replacement in a tracked module's record has a caller assembly
\* that is empty or the module's assembly name, and no other replacement is
\* ever applied to a method of the module.
C8_EnabledSetIsFiltered ==
  /\ \A m \in Modules :
       module_id_to_info_map_[m] # NULL =>
         LET enabled == Flatten(heap[module_id_to_info_map_[m]].integrations) IN
         \A i \in 1..Len(enabled) :
           enabled[i].caller_method.assembly \in {"", ModuleAssembly[m]}
  /\ \A t \in Committed :
       AppliedBy(t).caller_method.assembly \in {"", ModuleAssembly[thr[t].moduleId]}

\* C9: a module-load in which a wrapper emission failed still inserts the
\* module's record.
C9_EmitFailureKeepsModule ==
  \A t \in LoadEvents :
    (thr[t].pc = "done" /\ thr[t].emit_failed) => heap[thr[t].moduleMetadata].inserted

\* The catalog has no replacement for a module of this assembly.
NothingFor(assembly_name) ==
  \A i \in 1..Len(integrations_) : \A j \in 1..Len(integrations_[i]) :
    integrations_[i][j].caller_method.assembly \notin {"", assembly_name}

NeverTracked(m) == ModuleIsWinRT[m] \/ NothingFor(ModuleAssembly[m])

\* C10: a Windows Runtime module, or one no replacement names, is never
\* tracked: no record, nothing emitted, and no compilation event changes it.
C10_NeverTracked ==
  \A m \in Modules :
    NeverTracked(m) =>
      /\ module_id_to_info_map_[m] = NULL
      /\ symtab[m] = [assemblyRefs |-> {}, memberRefs |-> <<>>]
      /\ \A f \in FunctionTokens : hostIL[m][f] = OrigIL(f)
      /\ \A t \in Threads :
           thr[t].moduleId = m =>
             /\ thr[t].moduleMetadata = NULL
             /\ ~thr[t].committed
             /\ thr[t].pc \in {"idle", "done"}

\* C10 witness: loads of a Windows Runtime module and of a module no
\* replacement names have returned, and so has a later compilation event.
C10_Witness ==
  \E a \in LoadEvents, b \in LoadEvents, t \in JitEvents :
    /\ thr[a].pc = "done" /\ ModuleIsWinRT[thr[a].moduleId] /\ ~thr[a].hr_failed
    /\ thr[b].pc = "done" /\ ~ModuleIsWinRT[thr[b].moduleId] /\ ~thr[b].hr_failed
    /\ NothingFor(ModuleAssembly[thr[b].moduleId])
    /\ t > b /\ thr[t].pc = "done" /\ thr[t].moduleId = thr[b].moduleId
    /\ ~thr[t].hr_failed

\* A field of a method pattern: empty matches any name, a name only itself.
FieldMatches(pattern, name) == pattern = "" \/ pattern = name

\* A caller pattern against a compiling method's (assembly, type, method).
PatternMatches(caller_method, assembly, type_name, method_name) ==
  /\ FieldMatches(caller_method.assembly, assembly)
  /\ FieldMatches(caller_method.type_name, type_name)
  /\ FieldMatches(caller_method.method_name, method_name)

\* The replacement the rule loop of a compilation event is at.
CurrentOf(t) == EnabledOf(t)[thr[t].ri]

C11_Scanned(t) ==
  (thr[t].ev = "jit" /\ thr[t].pc = "jit_scan" /\ ~thr[t].used_after_free) =>
    PatternMatches(CurrentOf(t).caller_method, ModuleAssembly[thr[t].moduleId],
                   CallerOf(thr[t].functionToken).type_name,
                   CallerOf(thr[t].functionToken).name)

C11_Passed(t) ==
  ( /\ thr[t].pc = "jit_rule" /\ thr'[t].pc = "jit_rule"
    /\ thr'[t].ri = thr[t].ri + 1 /\ ~thr'[t].used_after_free ) =>
    ~PatternMatches(CurrentOf(t).caller_method, ModuleAssembly[thr[t].moduleId],
                    CallerOf(thr[t].functionToken).type_name,
                    CallerOf(thr[t].functionToken).name)

\* C11: a compilation event scans for a replacement exactly when the
\* replacement's caller pattern matches the compiling method's assembly, type
\* and method, an empty field matching anything and a non-empty field only
\* the same name: a scan is started only for a matching pattern, and a
\* replacement is passed over only when its pattern does not match.
C11_CallerPatternMatching ==
  /\ [](\A t \in Threads : C11_Scanned(t))
  /\ [][\A t \in Threads : C11_Passed(t)]_vars

\* C12: while a module is loaded its symbol table holds at most one member
\* reference per wrapper cache key, and every record made for the module
\* caches the same handle for a key.
C12_EmissionIdempotent ==
  \A m \in Modules :
    (\A u \in UnloadEvents : thr[u].moduleId # m) =>
      /\ \A i, j \in 1..Len(symtab[m].memberRefs) :
           symtab[m].memberRefs[i] = symtab[m].memberRefs[j] => i = j
      /\ \A a, b \in LoadEvents, k \in WrapperKeys :
           ( /\ thr[a].moduleId = m /\ thr[b].moduleId = m
             /\ thr[a].moduleMetadata # NULL /\ thr[b].moduleMetadata # NULL
             /\ heap[thr[a].moduleMetadata].wrapper_refs[k] # mdMemberRefNil
             /\ heap[thr[b].moduleMetadata].wrapper_refs[k] # mdMemberRefNil )
           => heap[thr[a].moduleMetadata].wrapper_refs[k]
                = heap[thr[b].moduleMetadata].wrapper_refs[k]

C13_Step(t) ==
  LET m == thr[t].moduleId
      f == thr[t].functionToken
      scanOver == thr[t].pc = "jit_scan" /\ thr[t].pInstr > Len(thr[t].il)
  IN
  \* a commit ends a scan that modified the stream, and ends the event
  /\ (thr'[t].committed /\ ~thr[t].committed) =>
       /\ scanOver /\ thr[t].modified
       /\ thr[t].il # OrigIL(f)
       /\ hostIL' = [hostIL EXCEPT ![m][f] = thr[t].il]
       /\ thr'[t].pc = "done"
  \* a scan that modified nothing is dropped and the loop goes on
  /\ (scanOver /\ ~thr[t].modified /\ thr'[t] # thr[t] /\ ~crashed') =>
       /\ thr'[t].pc = "jit_rule" /\ thr'[t].ri = thr[t].ri + 1
       /\ ~thr'[t].committed
       /\ hostIL' = hostIL
  \* an event that has returned does nothing more
  /\ (thr[t].ev = "jit" /\ thr[t].pc = "done") => thr'[t] = thr[t]

\* C13: a compilation event commits the instruction stream at most once, and
\* only at the end of a scan that modified an instruction; a scan that
\* modified nothing is dropped without a commit and the rule loop goes on to
\* the next replacement; the host's body changes only by such a commit.
C13_CommitOnlyAfterMutation ==
  [][ /\ \A t \in Threads : C13_Step(t)
      /\ hostIL' # hostIL =>
           \E t \in Threads : thr'[t].committed /\ ~thr[t].committed ]_vars

\* C13 witness: an event whose first scan (caller matched, nothing to rewrite)
\* was dropped has committed the scan of its second replacement.
C13_Witness ==
  \E t \in Committed :
    /\ thr[t].ri = 2 /\ ~thr[t].used_after_free /\ ~thr[t].hr_failed
    /\ CallerMatches(EnabledOf(t)[1], CallerOf(thr[t].functionToken))
    /\ ~HasTargetSite(OrigIL(thr[t].functionToken), EnabledOf(t)[1].target_method)
    /\ hostIL[thr[t].moduleId][thr[t].functionToken] = thr[t].il
    /\ thr[t].il # OrigIL(thr[t].functionToken)

\* The event's step reads through a record that is still allocated.
ReadsLive(t) == ~IsFreed(thr[t].moduleMetadata)

\* C14: when a caller-matching replacement has no wrapper reference in the
\* record's cache, the compilation event skips that replacement only: the
\* rule loop goes on with the next enabled replacement.
C14_MissingRefSkipsOneReplacement ==
  [][ \A t \in Threads :
        (thr'[t].missing_ref /\ ~thr[t].missing_ref) =>
          /\ thr'[t].pc = "jit_rule"
          /\ thr'[t].ri = thr[t].ri + 1 ]_vars

\* C15: when the import of the instruction stream or a metadata read fails
\* while a compilation event works on one replacement, the event drops that
\* replacement's scan only: the rule loop goes on with the next enabled
\* replacement.
C15_HostFailureSkipsOneReplacement ==
  [][ \A t \in Threads :
        ( /\ thr[t].pc \in {"jit_rule", "jit_scan"} /\ ReadsLive(t)
          /\ thr'[t].hr_failed /\ ~thr[t].hr_failed ) =>
          /\ thr'[t].pc = "jit_rule"
          /\ thr'[t].ri = thr[t].ri + 1 ]_vars

\* The thread's step scanned the instruction at pInstr and went on.
ScanStep(t) ==
  /\ thr[t].pc = "jit_scan" /\ thr'[t].pc = "jit_scan"
  /\ thr'[t].pInstr = thr[t].pInstr + 1

\* The method name a call operand carries: the member reference's member
\* name, or the method definition's own name.
OperandMethodName(tok) ==
  IF TypeFromToken(tok) = "mdtMemberRef" THEN MemberRefProps[tok.rid].name
  ELSE MethodProps[tok.rid].name

\* C16: a scanned call instruction whose operand's method name differs from
\* the target method name of the replacement the loop is at gets no type-name
\* read and is left as it was.
C16_NoTypeReadOnNameMismatch ==
  [][ \A t \in Threads :
        LET instr == thr[t].il[thr[t].pInstr] IN
        ( /\ ScanStep(t) /\ IsCallSite(instr)
          /\ OperandMethodName(instr.m_Arg32)
               # CurrentOf(t).target_method.method_name ) =>
          /\ thr'[t].type_reads = 0
          /\ thr'[t].il[thr[t].pInstr] = instr ]_vars

\* The resolution procedure: the (typeName, methodName) pair of a call
\* operand for an expected method name, NoTarget when it returns none.
Resolve(tok, expectedMethodName) ==
  IF TypeFromToken(tok) = "mdtMemberRef"
  THEN LET memberName == MemberRefProps[tok.rid].name
           parent == MemberRefProps[tok.rid].parent
       IN
       IF memberName # expectedMethodName THEN NoTarget
       ELSE IF TypeFromToken(parent) = "mdtTypeRef"
       THEN [type_name |-> TypeRefProps[parent.rid], method_name |-> memberName]
       ELSE IF TypeFromToken(parent) = "mdtTypeDef"
       THEN [type_name |-> TypeDefProps[parent.rid], method_name |-> memberName]
       ELSE IF TypeFromToken(parent) = "mdtMethodDef"
       THEN [type_name |-> TypeDefProps[MethodProps[parent.rid].class.rid],
             method_name |-> MethodProps[parent.rid].name]
       ELSE NoTarget
  ELSE IF TypeFromToken(tok) = "mdtMethodDef"
  THEN IF MethodProps[tok.rid].name # expectedMethodName THEN NoTarget
       ELSE [type_name |-> TypeDefProps[MethodProps[tok.rid].class.rid],
             method_name |-> MethodProps[tok.rid].name]
  ELSE NoTarget

\* A call instruction is a full match of a target: the procedure returns a
\* pair and its typeName is the target's declaring type.
FullMatch(instr, target_method) ==
  /\ IsCallSite(instr)
  /\ Resolve(instr.m_Arg32, target_method.method_name) # NoTarget
  /\ Resolve(instr.m_Arg32, target_method.method_name).type_name
       = target_method.type_name

\* C17: for every operand shape, the scan rewrites a call instruction exactly
\* when the resolution procedure, run for the target method name of the
\* replacement the loop is at, returns a pair whose typeName is that
\* replacement's target type; any other instruction is left as it was.
C17_RewriteIffResolved ==
  [][ \A t \in Threads :
        LET instr == thr[t].il[thr[t].pInstr] IN
        ScanStep(t) =>
          IF FullMatch(instr, CurrentOf(t).target_method)
          THEN thr'[t].il[thr[t].pInstr] = Instr("CEE_CALL", thr[t].wrapper_method_ref)
          ELSE thr'[t].il[thr[t].pInstr] = instr ]_vars

\* One step of a compilation event keeps the loops in order: the rule loop
\* never goes back, a scan goes forward one instruction at a time, and the
\* working copy keeps its length.
C18_Step(t) ==
  (thr[t].ev = "jit" /\ thr[t].pc \in {"jit_rule", "jit_scan"} /\ thr'[t].pc # "done") =>
    /\ thr'[t].ri \in {thr[t].ri, thr[t].ri + 1}
    /\ (thr[t].pc = "jit_scan" /\ thr'[t].pc = "jit_rule") =>
         (thr[t].pInstr = Len(thr[t].il) + 1 /\ thr'[t].ri = thr[t].ri + 1)
    /\ (thr[t].pc = "jit_scan" /\ thr'[t].pc = "jit_scan") =>
         /\ thr'[t].pInstr \in {thr[t].pInstr, thr[t].pInstr + 1}
         /\ Len(thr'[t].il) = Len(OrigIL(thr[t].functionToken))
         /\ thr'[t].ri = thr[t].ri
    /\ (thr[t].pc = "jit_rule" /\ thr'[t].pc = "jit_scan") =>
         (thr'[t].pInstr = 1 /\ thr'[t].il = OrigIL(thr[t].functionToken))

\* C18: every compilation event the host starts ends, committed or with the
\* body unchanged, and on its way the rule loop visits each replacement at
\* most once and each scan walks the stream once without changing its length.
C18_CompilationEnds ==
  /\ [][\A t \in Threads : C18_Step(t)]_vars
  /\ \A t \in Threads : (thr[t].ev = "jit") ~> (thr[t].pc = "done")

\* C19: a record in the map has a wrapper reference for every replacement of
\* its enabled set, and no compilation event finds one missing.
C19_RecordsComplete ==
  /\ \A m \in Modules :
       module_id_to_info_map_[m] # NULL =>
         LET r == module_id_to_info_map_[m]
             enabled == Flatten(heap[r].integrations)
         IN
         \A i \in 1..Len(enabled) :
           heap[r].wrapper_refs[enabled[i].wrapper_method.key] # mdMemberRefNil
  /\ \A t \in JitEvents : ~thr[t].missing_ref

\* A callback still running holds the record and will store or release it.
HeldByCallback(r) ==
  \E t \in Threads :
    /\ thr[t].moduleMetadata = r
    /\ thr[t].pc \in {"load_store", "unload_erase", "unload_delete"}

\* The map holds the record under the module it was made for.
InRegistry(r) ==
  \E a \in LoadEvents :
    /\ thr[a].moduleMetadata = r
    /\ module_id_to_info_map_[thr[a].moduleId] = r

\* C20: every allocated record is in the map under its module, or released,
\* or held by a load or unload that has not returned yet.
C20_NoOrphanRecords ==
  \A r \in RecIds :
    heap[r].state = "live" => (InRegistry(r) \/ HeldByCallback(r))

====
